---- MODULE Spec2Model ----
(***************************************************************************)
(* State-machine model of polly's driftmeasurement module: PeakDrift      *)
(* (tracking one etalon peak through a list of mask files, caching the    *)
(* result in a drift file, fitting a linear drift) and GroupDrift (pooled  *)
(* fit over several PeakDrift objects).                                    *)
(*                                                                         *)
(* Numbers are integers in one fixed unit (wavelengths, sigmas, days).     *)
(* A float is a record [k, v]: k = "num" with value v, k = "nan" for       *)
(* not-a-number, k = "none" for Python's None.                             *)
(* reference_wavelength is taken to be a numpy float (it is read from a    *)
(* mask with np.loadtxt), so list - reference_wavelength is an array       *)
(* operation.                                                              *)
(***************************************************************************)
EXTENDS Integers, Sequences, FiniteSets, TLC

VARIABLES drift, files, group

vars == <<drift, files, group>>

\* ------------------------------------------------------------------ bounds
MaxMasks == 2
MaxTracks == 2

\* ------------------------------------------------------------------ values
Num(n) == [k |-> "num", v |-> n]
NaN == [k |-> "nan", v |-> 0]
None == [k |-> "none", v |-> 0]

IsNum(x) == x.k = "num"
IsNaN(x) == x.k = "nan"
IsNone(x) == x.k = "none"

Abs(n) == IF n < 0 THEN -n ELSE n

Range(s) == {s[i] : i \in 1..Len(s)}

SeqsUpTo(S, n) == UNION {[1..m -> S] : m \in 1..n}

\* the divisor of the search window, local_spacing / 50
WindowDivisor == 50

\* ------------------------------------------------------- mask files on disk
\* Each mask file is a sequence of rows <<peak, sigma>>.
Mask(m) ==
    CASE m = "ok"     -> << <<Num(10), Num(1)>>, <<Num(20), Num(1)>> >>
      [] m = "edge"   -> << <<Num(12), Num(1)>>, <<Num(8), Num(2)>> >>
      [] m = "far"    -> << <<NaN, Num(1)>>, <<Num(13), Num(3)>> >>
      [] m = "empty"  -> << >>
      [] m = "one"    -> << <<Num(10), Num(1)>> >>
      [] m = "nanpos" -> << <<NaN, Num(1)>>, <<NaN, Num(1)>> >>
      [] m = "badsig" -> << <<Num(10), NaN>>, <<Num(11), Num(0)>> >>
      [] m = "e1"     -> << <<Num(50000), Num(1)>>, <<Num(60000), Num(1)>> >>
      [] m = "e2"     -> << <<Num(50004), Num(1)>>, <<Num(60000), Num(1)>> >>
      [] m = "e3"     -> << <<Num(50009), Num(1)>>, <<Num(60000), Num(1)>> >>
      [] m = "e4"     -> << <<Num(50013), Num(1)>>, <<Num(60000), Num(1)>> >>
      [] m = "e5"     -> << <<Num(50030), Num(1)>>, <<Num(60000), Num(1)>> >>

GenericMasks == {"ok", "edge", "far", "empty", "one", "nanpos", "badsig"}
ExampleMasks == <<"e1", "e2", "e3", "e4", "e5">>
MissMasks == <<"edge", "nanpos", "far">>

\* parse_filename(m).date: the day number encoded in the mask's file name
MaskDate(m) ==
    CASE m = "ok"     -> 1
      [] m = "edge"   -> 2
      [] m = "far"    -> 3
      [] m = "empty"  -> 4
      [] m = "one"    -> 5
      [] m = "nanpos" -> 6
      [] m = "badsig" -> 7
      [] m = "e1"     -> 1
      [] m = "e2"     -> 2
      [] m = "e3"     -> 3
      [] m = "e4"     -> 4
      [] m = "e5"     -> 5

Paths == {"P1", "P2"}
NoPath == "None"
Absent == [exists |-> FALSE, rows |-> << >>]
File(rows) == [exists |-> TRUE, rows |-> rows]

Trackers == {1, 2}

\* ------------------------------------------------------------ PeakDrift
\* The dataclass fields of a PeakDrift before __post_init__ runs, plus the
\* interpreter state of the calls made on it: the call stack (innermost
\* first), the loop index and the cursor of track_drift, the exception the
\* last call ended with, and the memoised valid_* properties.
NewPeakDrift(ref, spacing, masks, file, force, auto) ==
    [ reference_mask       |-> masks[1],
      reference_wavelength |-> ref,
      local_spacing        |-> spacing,
      masks                |-> masks,
      dates                |-> << >>,
      wavelengths          |-> << >>,
      sigmas               |-> << >>,
      isArray              |-> FALSE,
      valid                |-> << >>,
      validNone            |-> TRUE,
      auto_fit             |-> auto,
      fit                  |-> "None",
      fit_slope            |-> "None",
      fit_slope_err        |-> "None",
      drift_file           |-> file,
      force_recalculate    |-> force,
      recalculated         |-> FALSE,
      cvw                  |-> [set |-> FALSE, v |-> << >>],
      cvs                  |-> [set |-> FALSE, v |-> << >>],
      cvd                  |-> [set |-> FALSE, v |-> << >>],
      last_wavelength      |-> None,
      idx                  |-> 0,
      tracks               |-> 0,
      stack                |-> << >>,
      state                |-> "new",
      err                  |-> "none",
      op                   |-> [name |-> "none", path |-> NoPath, wrote |-> FALSE] ]

Idle(t) == t.state = "live" /\ t.stack = << >>

\* An exception leaves every frame of the stack.  Raised under __post_init__
\* the object is never bound; raised under a later call the caller keeps it.
Raise(t, exc) ==
    [t EXCEPT !.err = exc,
              !.stack = << >>,
              !.state = IF Range(t.stack) \cap {"__post_init__@91", "__post_init__@94"} # {}
                        THEN "failed"
                        ELSE t.state]

\* list.append; a numpy array has no append
Append2(t, w, s) ==
    IF t.isArray THEN Raise(t, "AttributeError")
    ELSE [t EXCEPT !.wavelengths = Append(t.wavelengths, w),
                   !.sigmas = Append(t.sigmas, s),
                   !.idx = t.idx + 1]

\* np.nanargmin(np.abs(peaks - last)): the first index of the least
\* distance among the rows whose peak is not NaN; 0 when every peak is NaN
\* (the ValueError of nanargmin)
Dist(row, last) == Abs(row[1].v - last)

NanArgMin(rows, last) ==
    LET ok == {i \in 1..Len(rows) : IsNum(rows[i][1])}
    IN  IF ok = {} THEN 0
        ELSE CHOOSE i \in ok :
               \A j \in ok : \/ Dist(rows[i], last) < Dist(rows[j], last)
                             \/ Dist(rows[i], last) = Dist(rows[j], last) /\ i <= j

\* InWindow with the whole local spacing as the window
InWindowOfSpacing(last, wavelength, spacing) ==
    Abs(last - wavelength) <= spacing

\* abs(last_wavelength - wavelength) <= self.local_spacing / 50
InWindow(last, wavelength, spacing) ==
    WindowDivisor * Abs(last - wavelength) <= spacing

\* track_drift up to the loop
TrackBegin(t, callers) ==
    [t EXCEPT !.dates = << >>,
              !.last_wavelength = None,
              !.idx = 1,
              !.tracks = t.tracks + 1,
              !.err = "none",
              !.stack = <<"track_drift">> \o callers]

\* TrackMask with the cursor following the nearest peak even when that peak
\* is outside the window
TrackMaskCursorFollows(t) ==
    LET m    == t.masks[t.idx]
        rows == Mask(m)
        t1   == [t EXCEPT !.dates = Append(t.dates, MaskDate(m))]
        last == IF IsNone(t.last_wavelength) THEN t.reference_wavelength
                ELSE t.last_wavelength.v
        t2   == [t1 EXCEPT !.last_wavelength = Num(last)]
        i    == NanArgMin(rows, last)
    IN  IF Len(rows) = 0 THEN Raise(t1, "ValueError")
        ELSE IF i = 0 THEN Append2(t2, None, None)
        ELSE IF Len(rows) = 1 THEN Raise(t2, "IndexError")
        ELSE IF InWindow(last, rows[i][1].v, t.local_spacing)
             THEN LET t3 == Append2(t2, rows[i][1], rows[i][2])
                  IN  IF t3.err = "none"
                      THEN [t3 EXCEPT !.last_wavelength = rows[i][1]]
                      ELSE t3
        ELSE Append2([t2 EXCEPT !.last_wavelength = rows[i][1]], None, None)

\* one pass of the loop body of track_drift, on masks[idx]
TrackMask(t) ==
    LET m    == t.masks[t.idx]
        rows == Mask(m)
        t1   == [t EXCEPT !.dates = Append(t.dates, MaskDate(m))]
        last == IF IsNone(t.last_wavelength) THEN t.reference_wavelength
                ELSE t.last_wavelength.v
        t2   == [t1 EXCEPT !.last_wavelength = Num(last)]
        i    == NanArgMin(rows, last)
    IN  IF Len(rows) = 0 THEN Raise(t1, "ValueError")
        ELSE IF i = 0 THEN Append2(t2, None, None)
        ELSE IF Len(rows) = 1 THEN Raise(t2, "IndexError")
        ELSE IF InWindow(last, rows[i][1].v, t.local_spacing)
             THEN LET t3 == Append2(t2, rows[i][1], rows[i][2])
                  IN  IF t3.err = "none"
                      THEN [t3 EXCEPT !.last_wavelength = rows[i][1]]
                      ELSE t3
        ELSE Append2(t2, None, None)

\* np.where(self.wavelengths, True, False): the truth value of each entry
Truthy(w) == ~IsNone(w) /\ ~(IsNum(w) /\ w.v = 0)

\* the end of track_drift
TrackEnd(t) ==
    [t EXCEPT !.valid = [i \in 1..Len(t.wavelengths) |-> Truthy(t.wavelengths[i])],
              !.validNone = FALSE,
              !.recalculated = TRUE,
              !.stack = Tail(t.stack)]

\* ------------------------------------------------- memoised valid_* views
\* np.array(xs)[self.valid]: a boolean index of another length is an
\* IndexError ("bad"); self.valid None returns xs itself
RECURSIVE Filter(_, _)
Filter(xs, keep) ==
    IF xs = << >> THEN << >>
    ELSE IF Head(keep) THEN <<Head(xs)>> \o Filter(Tail(xs), Tail(keep))
    ELSE Filter(Tail(xs), Tail(keep))

BoolIndex(xs, t) ==
    IF t.validNone THEN [bad |-> FALSE, v |-> xs]
    ELSE IF Len(xs) # Len(t.valid) THEN [bad |-> TRUE, v |-> << >>]
    ELSE [bad |-> FALSE, v |-> Filter(xs, t.valid)]

\* cached_property: computed at the first read, returned as stored afterwards
Memo(c, x) == IF c.set \/ x.bad THEN c ELSE [set |-> TRUE, v |-> x.v]

valid_wavelengths(t) == [t EXCEPT !.cvw = Memo(t.cvw, BoolIndex(t.wavelengths, t))]
valid_sigmas(t) == [t EXCEPT !.cvs = Memo(t.cvs, BoolIndex(t.sigmas, t))]
valid_dates(t) == [t EXCEPT !.cvd = Memo(t.cvd, BoolIndex(t.dates, t))]

\* reference_date: parse_filename(self.reference_mask).date
reference_date(t) == MaskDate(t.reference_mask)

\* ------------------------------------------------------------ linear_fit
\* scipy's curve_fit on (days, deltas, sigmas): "nan" stands for the
\* ValueError/RuntimeError that linear_fit catches.  With a NaN or zero sigma
\* the residuals are not finite and the outcome is left to the caller (out).
CurveFit(xs, ys, ss, out) ==
    IF Len(ys) = 0 THEN "nan"
    ELSE IF Len(xs) # Len(ys) \/ Len(ss) # Len(ys) THEN "nan"
    ELSE IF \E i \in 1..Len(ss) : ~IsNum(ss[i]) \/ ss[i].v = 0 THEN out
    ELSE "model"

\* linear_fit from line 266 on
FitRest(t, out) ==
    LET t1 == valid_dates(t)
        t2 == valid_sigmas(t1)
        r  == CurveFit(t2.cvd.v, t2.cvw.v, t2.cvs.v, out)
    IN  IF ~t1.cvd.set THEN Raise(t1, "IndexError")
        ELSE IF ~t2.cvs.set THEN Raise(t2, "IndexError")
        ELSE [t2 EXCEPT !.fit = r, !.fit_slope = r, !.fit_slope_err = r,
                        !.stack = Tail(t2.stack)]

\* linear_fit, entered with its own frame on the stack
LinearFit(t, out) ==
    LET t1 == valid_wavelengths(t)
    IN  IF ~t1.cvw.set THEN Raise(t1, "IndexError")
        ELSE IF Len(t1.cvw.v) = 0 THEN TrackBegin(t1, t1.stack)
        ELSE FitRest(t1, out)

\* what the caller of a finished call does next: linear_fit resumes at line
\* 266; __post_init__ goes from its track_drift or load_from_file call (line
\* 84, 87 or 91) to the auto_fit check, and returns after linear_fit (line 94)
RECURSIVE Resume(_, _)
Resume(t, out) ==
    IF t.err # "none" \/ t.stack = << >> \/ Head(t.stack) = "track_drift" THEN t
    ELSE IF Head(t.stack) = "linear_fit" THEN Resume(FitRest(t, out), out)
    ELSE IF Head(t.stack) = "__post_init__@91" /\ t.auto_fit
         THEN Resume(LinearFit([t EXCEPT !.stack = <<"linear_fit", "__post_init__@94">>],
                               out), out)
    ELSE [t EXCEPT !.stack = << >>, !.state = "live"]

\* ---------------------------------------------------------- drift files
\* f"{x}" of a float, and the float loadtxt reads back from that text;
\* "None" is no float
Str(x) == [txt |-> IF IsNum(x) THEN "num" ELSE IF IsNaN(x) THEN "nan" ELSE "None",
           v |-> x.v]
Float(s) == IF s.txt = "num" THEN Num(s.v) ELSE IF s.txt = "nan" THEN NaN ELSE None

\* f"{d:%Y%m%d}" of a date, and parse_yyyymmdd of the number read back
DateStr(d) == [txt |-> "num", v |-> d]
parse_yyyymmdd(x) == x.v

\* save_to_file(path): <<the object, the files>> afterwards
SaveToFile(t, path, fs) ==
    LET p  == IF path = NoPath THEN t.drift_file ELSE path
        t0 == [t EXCEPT !.err = "none",
                        !.op = [name |-> "save_to_file", path |-> p, wrote |-> FALSE]]
        t1 == valid_dates(t0)
        t2 == valid_wavelengths(t1)
        t3 == valid_sigmas(t2)
        n  == Len(t3.cvd.v)
    IN  IF p = NoPath THEN <<Raise(t0, "Exception"), fs>>
        ELSE IF fs[p].exists /\ ~t.recalculated THEN <<t0, fs>>
        ELSE IF ~t1.cvd.set THEN <<Raise(t1, "IndexError"), fs>>
        ELSE IF ~t2.cvw.set THEN <<Raise(t2, "IndexError"), fs>>
        ELSE IF ~t3.cvs.set THEN <<Raise(t3, "IndexError"), fs>>
        ELSE IF Len(t3.cvw.v) # n \/ Len(t3.cvs.v) # n THEN <<Raise(t3, "ValueError"), fs>>
        ELSE << [t3 EXCEPT !.op.wrote = TRUE],
                [fs EXCEPT ![p] = File([i \in 1..n |->
                     <<DateStr(t3.cvd.v[i]), Str(t3.cvw.v[i]), Str(t3.cvs.v[i])>>])] >>

\* LoadFromFile without line 106: a stored sigma of 0 stays 0
LoadFromFileKeepsZero(t, fs) ==
    LET rows == fs[t.drift_file].rows
        n    == Len(rows)
        wls  == [i \in 1..n |-> Float(rows[i][2])]
        sgs  == [i \in 1..n |-> Float(rows[i][3])]
    IN  IF \E i \in 1..n : \E j \in 1..3 : IsNone(Float(rows[i][j]))
        THEN Raise(t, "ValueError")
        ELSE IF n = 0 THEN Raise(t, "ValueError")
        ELSE IF n = 1 THEN Raise(t, "TypeError")
        ELSE [t EXCEPT !.dates = [i \in 1..n |-> parse_yyyymmdd(rows[i][1])],
                       !.wavelengths = wls,
                       !.sigmas = sgs,
                       !.isArray = TRUE,
                       !.valid = [i \in 1..n |-> ~IsNaN(wls[i]) /\ ~IsNaN(sgs[i])],
                       !.validNone = FALSE]

\* load_from_file: np.loadtxt squeezes a one-row file to three scalars and
\* an empty file to an empty array
LoadFromFile(t, fs) ==
    LET rows == fs[t.drift_file].rows
        n    == Len(rows)
        wls  == [i \in 1..n |-> Float(rows[i][2])]
        sgs  == [i \in 1..n |-> LET s == Float(rows[i][3])
                                IN  IF IsNum(s) /\ s.v = 0 THEN NaN ELSE s]
    IN  IF \E i \in 1..n : \E j \in 1..3 : IsNone(Float(rows[i][j]))
        THEN Raise(t, "ValueError")
        ELSE IF n = 0 THEN Raise(t, "ValueError")
        ELSE IF n = 1 THEN Raise(t, "TypeError")
        ELSE [t EXCEPT !.dates = [i \in 1..n |-> parse_yyyymmdd(rows[i][1])],
                       !.wavelengths = wls,
                       !.sigmas = sgs,
                       !.isArray = TRUE,
                       !.valid = [i \in 1..n |-> ~IsNaN(wls[i]) /\ ~IsNaN(sgs[i])],
                       !.validNone = FALSE]

\* __post_init__ up to its first call
PostInit(t, fs, out) ==
    LET t0 == [t EXCEPT !.stack = <<"__post_init__@91">>,
                        !.state = "init",
                        !.op = [name |-> "__post_init__", path |-> NoPath, wrote |-> FALSE]]
    IN  IF t.drift_file = NoPath THEN Raise(t0, "AttributeError")
        ELSE IF fs[t.drift_file].exists /\ ~t.force_recalculate
             THEN Resume(LoadFromFile(t0, fs), out)
        ELSE TrackBegin(t0, t0.stack)

\* ------------------------------------------------------------ GroupDrift
NewGroupDrift ==
    [ peakDrifts          |-> << >>,
      group_fit           |-> "None",
      group_fit_err       |-> "None",
      group_fit_slope     |-> "None",
      group_fit_slope_err |-> "None",
      days                |-> [set |-> FALSE, v |-> << >>],
      deltas              |-> [set |-> FALSE, v |-> << >>],
      relsigmas           |-> [set |-> FALSE, v |-> << >>],
      reference_date      |-> [set |-> FALSE, v |-> 0],
      state               |-> "new",
      err                 |-> "none" ]

\* sorted(self.peakDrifts, key=attrgetter("reference_wavelength")): stable
RECURSIVE Sorted(_, _)
Sorted(ms, ds) ==
    IF ms = << >> THEN << >>
    ELSE LET i == CHOOSE i \in 1..Len(ms) :
                    \A j \in 1..Len(ms) :
                       \/ ds[ms[i]].reference_wavelength < ds[ms[j]].reference_wavelength
                       \/ /\ ds[ms[i]].reference_wavelength = ds[ms[j]].reference_wavelength
                          /\ i <= j
         IN  <<ms[i]>> \o Sorted([k \in 1..(Len(ms) - 1) |->
                                     IF k < i THEN ms[k] ELSE ms[k + 1]], ds)

Min(S) == CHOOSE x \in S : \A y \in S : x <= y

\* A member's memoised view (what = "vd", "vw", "vs"): the member after the
\* read, the memo read, and the entries the group takes from it -- the date,
\* the fractional delta (v over d), the relative sigma (v over d)
View(t, what) ==
    IF what = "vd" THEN valid_dates(t)
    ELSE IF what = "vw" THEN valid_wavelengths(t)
    ELSE valid_sigmas(t)

ViewMemo(t, what) ==
    IF what = "vd" THEN t.cvd ELSE IF what = "vw" THEN t.cvw ELSE t.cvs

Pooled(t, what, xs) ==
    [i \in 1..Len(xs) |->
        IF what = "vd" THEN xs[i]
        ELSE IF what = "vw"
             THEN [k |-> xs[i].k, v |-> xs[i].v - t.reference_wavelength,
                   d |-> t.reference_wavelength]
        ELSE [k |-> xs[i].k, v |-> xs[i].v, d |-> t.reference_wavelength]]

PoolJoin(r, xs) == [ds |-> r.ds, bad |-> r.bad, v |-> xs \o r.v]

\* The loops of all_dates, all_deltas and all_relative_sigmas: extend the
\* pooled list with each member's view, reading (and so memoising) the
\* member's valid_* property.  bad: a member's property raised IndexError.
RECURSIVE Pool(_, _, _)
RECURSIVE PoolMember(_, _, _, _)
PoolMember(ds, ms, what, t) ==
    IF ~ViewMemo(t, what).set
    THEN [ds |-> [ds EXCEPT ![Head(ms)] = t], bad |-> TRUE, v |-> << >>]
    ELSE PoolJoin(Pool([ds EXCEPT ![Head(ms)] = t], Tail(ms), what),
                  Pooled(t, what, ViewMemo(t, what).v))

Pool(ds, ms, what) ==
    IF ms = << >> THEN [ds |-> ds, bad |-> FALSE, v |-> << >>]
    ELSE PoolMember(ds, ms, what, View(ds[Head(ms)], what))

\* reference_date (memoised): min(self.all_dates)
ReferenceDate(g, dates) ==
    IF g.reference_date.set \/ dates = << >> THEN g.reference_date
    ELSE [set |-> TRUE, v |-> Min(Range(dates))]

\* all_days_since_reference_date (memoised): reference_date is read inside
\* the comprehension, so only when all_dates is not empty
DaysSince(g, r) ==
    IF r.bad THEN [g |-> g, ds |-> r.ds, bad |-> TRUE]
    ELSE [g |-> [g EXCEPT !.days = [set |-> TRUE,
                                    v |-> [i \in 1..Len(r.v) |->
                                             r.v[i] - ReferenceDate(g, r.v).v]],
                          !.reference_date = ReferenceDate(g, r.v)],
          ds |-> r.ds, bad |-> FALSE]

AllDays(e) ==
    IF e.bad \/ e.g.days.set THEN e
    ELSE DaysSince(e.g, Pool(e.ds, e.g.peakDrifts, "vd"))

\* all_deltas (memoised)
Deltas(g, r) ==
    IF r.bad THEN [g |-> g, ds |-> r.ds, bad |-> TRUE]
    ELSE [g |-> [g EXCEPT !.deltas = [set |-> TRUE, v |-> r.v]],
          ds |-> r.ds, bad |-> FALSE]

AllDeltas(e) ==
    IF e.bad \/ e.g.deltas.set THEN e
    ELSE Deltas(e.g, Pool(e.ds, e.g.peakDrifts, "vw"))

\* all_relative_sigmas (memoised)
RelativeSigmas(g, r) ==
    IF r.bad THEN [g |-> g, ds |-> r.ds, bad |-> TRUE]
    ELSE [g |-> [g EXCEPT !.relsigmas = [set |-> TRUE, v |-> r.v]],
          ds |-> r.ds, bad |-> FALSE]

AllRelativeSigmas(e) ==
    IF e.bad \/ e.g.relsigmas.set THEN e
    ELSE RelativeSigmas(e.g, Pool(e.ds, e.g.peakDrifts, "vs"))

SetGroupFit(g, r) ==
    [g EXCEPT !.group_fit = r, !.group_fit_err = r,
              !.group_fit_slope = r, !.group_fit_slope_err = r]

\* the end of the try block of fit_group_drift: any exception, of a member's
\* property or of curve_fit, unsets the four fields
GroupFitted(e, out) ==
    IF e.bad \/ CurveFit(e.g.days.v, e.g.deltas.v, e.g.relsigmas.v, out) = "nan"
    THEN [g |-> SetGroupFit(e.g, "None"), ds |-> e.ds]
    ELSE [g |-> SetGroupFit(e.g, "model"), ds |-> e.ds]

\* the try block of fit_group_drift
GroupTry(e, out) == GroupFitted(AllRelativeSigmas(AllDeltas(AllDays(e))), out)

\* the two prints of verbose come before the try block
Printed(e, out) ==
    IF e.bad THEN [g |-> [e.g EXCEPT !.err = "IndexError"], ds |-> e.ds]
    ELSE GroupTry(e, out)

\* fit_group_drift(verbose)
FitGroupDrift(g, ds, verbose, out) ==
    IF verbose
    THEN Printed(AllDeltas(AllDays([g |-> [g EXCEPT !.err = "none"], ds |-> ds,
                                    bad |-> FALSE])), out)
    ELSE GroupTry([g |-> [g EXCEPT !.err = "none"], ds |-> ds, bad |-> FALSE], out)

\* ---------------------------------------------------------------- inputs
Row(d, w, s) == <<DateStr(d), Str(w), Str(s)>>

\* drift files found on disk at the start
CacheFiles ==
    { Absent,
      File(<<Row(1, Num(10), Num(1)), Row(2, Num(12), Num(0)), Row(3, Num(12), Num(2))>>),
      File(<<Row(1, Num(10), Num(0)), Row(2, Num(11), Num(0))>>) }

Configs ==
    { [ref |-> 10, spacing |-> 100, masks |-> ms] : ms \in SeqsUpTo(GenericMasks, MaxMasks) }
    \cup { [ref |-> 50000, spacing |-> 500, masks |-> ExampleMasks],
           [ref |-> 10, spacing |-> 100, masks |-> MissMasks] }

Outcomes == {"model", "nan"}

\* --------------------------------------------------------------- actions
\* PeakDrift(...): the dataclass __init__ and __post_init__ of tracker p
Construct(p) ==
    /\ drift[p].state = "new"
    /\ \E out \in Outcomes :
         drift' = [drift EXCEPT ![p] = PostInit(drift[p], files, out)]
    /\ UNCHANGED <<files, group>>

\* TrackStep with the cursor kept in one place for all trackers: the pass
\* starts from the cursor another running track_drift has left
TrackStepSharedCursor(p) ==
    /\ drift[p].stack # << >>
    /\ Head(drift[p].stack) = "track_drift"
    /\ drift[p].idx <= Len(drift[p].masks)
    /\ \E q \in Trackers \ {p} :
         drift' = [drift EXCEPT ![p] =
             TrackMask(IF drift[q].stack # << >> /\ ~IsNone(drift[q].last_wavelength)
                       THEN [drift[p] EXCEPT !.last_wavelength = drift[q].last_wavelength]
                       ELSE drift[p])]
    /\ UNCHANGED <<files, group>>

\* one mask of the loop of track_drift
TrackStep(p) ==
    /\ drift[p].stack # << >>
    /\ Head(drift[p].stack) = "track_drift"
    /\ drift[p].idx <= Len(drift[p].masks)
    /\ drift' = [drift EXCEPT ![p] = TrackMask(drift[p])]
    /\ UNCHANGED <<files, group>>

\* the loop of track_drift is over: lines 245-248 and the return into the caller
TrackReturn(p) ==
    /\ drift[p].stack # << >>
    /\ Head(drift[p].stack) = "track_drift"
    /\ drift[p].idx > Len(drift[p].masks)
    /\ \E out \in Outcomes :
         LET t == Resume(TrackEnd(drift[p]), out)
         IN  /\ t.tracks <= MaxTracks
             /\ drift' = [drift EXCEPT ![p] = t]
    /\ UNCHANGED <<files, group>>

\* a call of track_drift() on a constructed tracker
CallTrack(p) ==
    /\ Idle(drift[p])
    /\ drift[p].tracks < MaxTracks
    /\ drift' = [drift EXCEPT ![p] =
           TrackBegin([drift[p] EXCEPT !.op = [name |-> "track_drift", path |-> NoPath,
                                               wrote |-> FALSE]], << >>)]
    /\ UNCHANGED <<files, group>>

\* a call of linear_fit() on a constructed tracker
CallFit(p) ==
    /\ Idle(drift[p])
    /\ \E out \in Outcomes :
         LET t0 == [drift[p] EXCEPT !.err = "none", !.stack = <<"linear_fit">>,
                                    !.op = [name |-> "linear_fit", path |-> NoPath,
                                            wrote |-> FALSE]]
             t  == Resume(LinearFit(t0, out), out)
         IN  /\ t.tracks <= MaxTracks
             /\ drift' = [drift EXCEPT ![p] = t]
    /\ UNCHANGED <<files, group>>

\* a call of save_to_file(path) on a constructed tracker
CallSave(p) ==
    /\ Idle(drift[p])
    /\ \E path \in Paths \cup {NoPath} :
         LET r == SaveToFile(drift[p], path, files)
         IN  /\ drift' = [drift EXCEPT ![p] = r[1]]
             /\ files' = r[2]
    /\ UNCHANGED group

\* a second PeakDrift for the same peak, built on a drift file that exists
Reload ==
    /\ Idle(drift[1])
    /\ group.state = "new"
    /\ drift[2].state = "unbound"
    /\ \E path \in Paths : \E out \in Outcomes :
         /\ files[path].exists
         /\ drift' = [drift EXCEPT ![2] =
               PostInit(NewPeakDrift(drift[1].reference_wavelength,
                                     drift[1].local_spacing, drift[1].masks,
                                     path, FALSE, FALSE), files, out)]
    /\ UNCHANGED <<files, group>>

\* GroupDrift(peakDrifts): the dataclass __init__ and __post_init__
GroupConstruct ==
    /\ group.state = "new"
    /\ \E ms \in SeqsUpTo(Trackers, Cardinality(Trackers)) :
         /\ \A i, j \in 1..Len(ms) : ms[i] = ms[j] => i = j
         /\ \A i \in 1..Len(ms) : Idle(drift[ms[i]])
         /\ group' = [NewGroupDrift EXCEPT !.peakDrifts = Sorted(ms, drift),
                                          !.state = "live"]
    /\ UNCHANGED <<drift, files>>

\* a call of fit_group_drift(verbose)
CallFitGroup ==
    /\ group.state = "live"
    /\ \E verbose \in BOOLEAN : \E out \in Outcomes :
         LET r == FitGroupDrift(group, drift, verbose, out)
         IN  /\ group' = r.g
             /\ drift' = r.ds
    /\ UNCHANGED files

Unbound == [NewPeakDrift(1, 1, <<"ok">>, NoPath, FALSE, FALSE) EXCEPT !.state = "unbound"]

Init ==
    /\ \E c \in Configs : \E file \in {NoPath, "P1"} : \E force \in BOOLEAN :
         \E auto \in BOOLEAN :
           drift = [p \in Trackers |->
                      IF p = 1 THEN NewPeakDrift(c.ref, c.spacing, c.masks, file, force, auto)
                      ELSE Unbound]
    /\ \E f \in CacheFiles : files = [p \in Paths |-> IF p = "P1" THEN f ELSE Absent]
    /\ group = NewGroupDrift

\* The calls on tracker 1 come first, then tracker 2 is built, then the group.
Session == drift[2].state \in {"unbound", "new"} /\ group.state = "new"

Construct1 == Construct(1)
TrackStep1 == Session /\ TrackStep(1)
TrackReturn1 == Session /\ TrackReturn(1)
CallTrack1 == Session /\ CallTrack(1)
CallFit1 == Session /\ CallFit(1)
CallSave1 == Session /\ CallSave(1)

Next ==
    \/ Construct1
    \/ TrackStep1
    \/ TrackReturn1
    \/ CallTrack1
    \/ CallFit1
    \/ CallSave1
    \/ Reload

Spec == Init /\ [][Next]_vars

\* ------------------------------------------------------- group sessions
\* Two trackers of different peaks, each built from its masks with no drift
\* file on disk, then pooled in a GroupDrift.
GroupMasks == { <<"edge">>, <<"nanpos">>, <<"far", "edge">> }

GroupConfigs ==
    { [ref |-> 10, spacing |-> 100, masks |-> ms] : ms \in SeqsUpTo(GenericMasks, MaxMasks) }

InitGroup ==
    /\ \E c \in GroupConfigs : \E auto \in BOOLEAN : \E ms2 \in GroupMasks :
           drift = [p \in Trackers |->
                      IF p = 1 THEN NewPeakDrift(c.ref, c.spacing, c.masks, "P1", FALSE, auto)
                      ELSE NewPeakDrift(12, c.spacing, ms2, "P2", FALSE, FALSE)]
    /\ files = [p \in Paths |-> Absent]
    /\ group = NewGroupDrift

Settled(t) == Idle(t) \/ t.state = "failed"

Construct2 == Settled(drift[1]) /\ group.state = "new" /\ Construct(2)
TrackStep2 == group.state = "new" /\ TrackStep(2)
TrackReturn2 == group.state = "new" /\ TrackReturn(2)

NextGroup ==
    \/ Construct1
    \/ TrackStep1
    \/ TrackReturn1
    \/ CallTrack1
    \/ CallFit1
    \/ Construct2
    \/ TrackStep2
    \/ TrackReturn2
    \/ GroupConstruct
    \/ CallFitGroup

SpecGroup == InitGroup /\ [][NextGroup]_vars

\* ---------------------------------------------------- parallel sessions
\* Two trackers of different peaks, with different drift files, constructed
\* at the same time: the passes of their track_drift loops interleave.
ParFiles == { Absent,
              File(<<Row(1, Num(10), Num(1)), Row(2, Num(12), Num(0)),
                     Row(3, Num(12), Num(2))>>) }

InitPar ==
    /\ \E c \in GroupConfigs : \E force \in BOOLEAN : \E auto \in BOOLEAN :
         \E ms2 \in GroupMasks :
           drift = [p \in Trackers |->
                      IF p = 1 THEN NewPeakDrift(c.ref, c.spacing, c.masks, "P1", force, auto)
                      ELSE NewPeakDrift(12, c.spacing, ms2, "P2", FALSE, FALSE)]
    /\ \E f1 \in ParFiles : \E f2 \in ParFiles :
         files = [p \in Paths |-> IF p = "P1" THEN f1 ELSE f2]
    /\ group = NewGroupDrift

Constructing(t) == t.state = "init"

ParConstruct2 == group.state = "new" /\ Construct(2)
ParTrackStep1 == Constructing(drift[1]) /\ TrackStep(1)
ParTrackReturn1 == Constructing(drift[1]) /\ TrackReturn(1)
ParTrackStep2 == Constructing(drift[2]) /\ TrackStep(2)
ParTrackReturn2 == Constructing(drift[2]) /\ TrackReturn(2)

NextPar ==
    \/ Construct1
    \/ ParTrackStep1
    \/ ParTrackReturn1
    \/ ParConstruct2
    \/ ParTrackStep2
    \/ ParTrackReturn2

SpecPar == InitPar /\ [][NextPar]_vars

\* ================================================================ claims
Tracking(t) == t.stack # << >> /\ Head(t.stack) = "track_drift"

\* the entries the running track_drift has appended so far
RunEntries(t) ==
    SubSeq(t.wavelengths, Len(t.wavelengths) - (t.idx - 1) + 1, Len(t.wavelengths))

\* the last entry of ws that is not None, or ref when there is none
RECURSIVE LastAccepted(_, _)
LastAccepted(ws, ref) ==
    IF ws = << >> THEN Num(ref)
    ELSE IF ~IsNone(ws[Len(ws)]) THEN ws[Len(ws)]
    ELSE LastAccepted(SubSeq(ws, 1, Len(ws) - 1), ref)

\* the position the next mask is matched against
Cursor(t) ==
    IF IsNone(t.last_wavelength) THEN Num(t.reference_wavelength) ELSE t.last_wavelength

\* the four per-index arrays have one length
SameLengths(t) ==
    /\ Len(t.dates) = Len(t.wavelengths)
    /\ Len(t.wavelengths) = Len(t.sigmas)
    /\ Len(t.sigmas) = Len(t.valid)

\* C1: between calls, on a tracker whose last call returned normally, dates,
\* wavelengths, sigmas and valid have one length, and on a tracker that was
\* tracked that length is the number of masks -- also after track_drift has
\* run more than once.
C1_ArraysAligned ==
    \A p \in Trackers :
        Idle(drift[p]) /\ drift[p].err = "none" =>
            /\ SameLengths(drift[p])
            /\ drift[p].recalculated => Len(drift[p].wavelengths) = Len(drift[p].masks)

CacheExists(t, fs) == t.drift_file # NoPath /\ fs[t.drift_file].exists

\* C2: construction loads the drift file when it exists and recalculation is
\* not forced, and in every other case -- no drift file given included --
\* starts tracking from the masks; it never fails for want of a drift file.
C2_LoadOrTrack ==
    [][Construct1 =>
         IF CacheExists(drift[1], files) /\ ~drift[1].force_recalculate
         THEN drift'[1].isArray
         ELSE /\ drift'[1].err = "none"
              /\ ~drift'[1].isArray
              /\ drift'[1].tracks = 1
              /\ Tracking(drift'[1])]_vars

\* C3: while track_drift runs, the cursor is the last position this run has
\* accepted, or the reference wavelength when it has accepted none; and the
\* run over positions 5000.0, 5000.4, 5000.9, 5001.3, 5003.0 (reference
\* 5000.0, local spacing 50.0; in tenths) ends with the matches
\* 5000.0, 5000.4, 5000.9, 5001.3, None.
C3_CursorIsLastAccepted ==
    \A p \in Trackers :
        /\ Tracking(drift[p]) =>
             Cursor(drift[p]) =
                 LastAccepted(RunEntries(drift[p]), drift[p].reference_wavelength)
        /\ /\ drift[p].masks = ExampleMasks
           /\ drift[p].reference_wavelength = 50000
           /\ drift[p].local_spacing = 500
           /\ drift[p].tracks = 1
           /\ drift[p].recalculated
           => drift[p].wavelengths =
                  <<Num(50000), Num(50004), Num(50009), Num(50013), None>>

\* C3 witness: a run that accepted 12, missed, and accepted 13 from the
\* cursor 12 (13 is outside the window of the reference 10)
C3_Witness ==
    /\ Tracking(drift[1])
    /\ drift[1].reference_wavelength = 10
    /\ RunEntries(drift[1]) = <<Num(12), None, Num(13)>>
    /\ Cursor(drift[1]) = Num(13)

\* the rows of the mask the next pass of track_drift reads, and those among
\* them that carry a peak position
NextRows(t) == Mask(t.masks[t.idx])
Candidates(t) == {i \in 1..Len(NextRows(t)) : IsNum(NextRows(t)[i][1])}
MinDist(t) == Min({Dist(NextRows(t)[i], Cursor(t).v) : i \in Candidates(t)})
SomeInWindow(t) ==
    \E i \in Candidates(t) :
        InWindow(Cursor(t).v, NextRows(t)[i][1].v, t.local_spacing)

\* the pass from t to u accepted a nearest candidate and moved the cursor to it
AcceptedStep(t, u) ==
    /\ u.err = "none"
    /\ \E i \in Candidates(t) :
         /\ Dist(NextRows(t)[i], Cursor(t).v) = MinDist(t)
         /\ u.wavelengths = Append(t.wavelengths, NextRows(t)[i][1])
         /\ u.sigmas = Append(t.sigmas, NextRows(t)[i][2])
         /\ Cursor(u) = NextRows(t)[i][1]

\* the pass from t to u recorded a null match and left the cursor alone
NullStep(t, u) ==
    /\ u.err = "none"
    /\ u.wavelengths = Append(t.wavelengths, None)
    /\ u.sigmas = Append(t.sigmas, None)
    /\ Cursor(u) = Cursor(t)
    /\ u.idx = t.idx + 1

\* C4: on a mask with at least one candidate, track_drift accepts the
\* candidate nearest to the cursor if and only if its distance is at most
\* local_spacing / 50, and otherwise records a null match with the cursor
\* unchanged.
C4_AcceptIffInWindow ==
    [][TrackStep1 /\ ~drift[1].isArray /\ Candidates(drift[1]) # {} =>
         IF WindowDivisor * MinDist(drift[1]) <= drift[1].local_spacing
         THEN AcceptedStep(drift[1], drift'[1])
         ELSE NullStep(drift[1], drift'[1])]_vars

\* C5: a pass of track_drift never raises, whatever the number of rows of
\* the mask (zero, one or many), and on a mask with no candidate in the
\* window it records a null wavelength and a null sigma and goes on.
C5_TrackNeverRaises ==
    [][TrackStep1 /\ ~drift[1].isArray =>
         /\ drift'[1].err = "none"
         /\ drift'[1].idx = drift[1].idx + 1
         /\ ~SomeInWindow(drift[1]) => NullStep(drift[1], drift'[1])]_vars

\* C6: after track_drift or load_from_file, valid[i] holds if and only if
\* wavelengths[i] and sigmas[i] are both neither None nor NaN.
C6_ValidIffBothNumbers ==
    \A p \in Trackers :
        Idle(drift[p]) /\ drift[p].err = "none" /\ SameLengths(drift[p]) =>
            \A i \in 1..Len(drift[p].valid) :
                drift[p].valid[i] <=>
                    IsNum(drift[p].wavelengths[i]) /\ IsNum(drift[p].sigmas[i])

\* C7: tracker 1 freshly tracked and just saved to a path, tracker 2 then
\* built on that path: tracker 2 is loaded without error and holds exactly
\* the valid dates, wavelengths and sigmas of tracker 1, in order, all valid.
C7_RoundTrip ==
    LET a == drift[1]
        b == drift[2]
    IN  /\ b.state # "unbound"
        /\ a.op.name = "save_to_file" /\ a.op.wrote /\ a.op.path = b.drift_file
        /\ a.tracks = 1 /\ ~a.isArray
        => /\ b.state = "live" /\ b.err = "none"
           /\ b.dates = Filter(a.dates, a.valid)
           /\ b.wavelengths = Filter(a.wavelengths, a.valid)
           /\ b.sigmas = Filter(a.sigmas, a.valid)
           /\ \A i \in 1..Len(b.valid) : b.valid[i]

\* the rows of the valid points the tracker holds now
ValidRows(t) ==
    LET d == BoolIndex(t.dates, t)
        w == BoolIndex(t.wavelengths, t)
        g == BoolIndex(t.sigmas, t)
    IN  IF d.bad \/ w.bad \/ g.bad THEN << >>
        ELSE [i \in 1..Len(d.v) |-> Row(d.v[i], w.v[i], g.v[i])]

\* C8: save_to_file leaves the files alone when the target exists and the
\* tracker was loaded and never recalculated; otherwise it writes the rows of
\* the current valid points to the target.
C8_SaveWritesUnlessLoaded ==
    [][CallSave1 =>
         LET p == drift'[1].op.path
         IN  IF files[p].exists /\ ~drift[1].recalculated
             THEN files' = files
             ELSE files' = [files EXCEPT ![p] = File(ValidRows(drift[1]))]]_vars

\* C9: linear_fit never raises; it ends with a fitted model, or with the
\* model, the slope and the slope error all NaN.
C9_FitNeverRaises ==
    \A p \in Trackers :
        drift[p].op.name = "linear_fit" =>
            /\ drift[p].err = "none"
            /\ Idle(drift[p]) =>
                 /\ drift[p].fit \in {"model", "nan"}
                 /\ drift[p].fit_slope = drift[p].fit
                 /\ drift[p].fit_slope_err = drift[p].fit

\* C10: fit_group_drift never raises, with verbose on or off, and the four
\* group result fields are all None or all set.
C10_GroupFitNeverRaises ==
    /\ group.err = "none"
    /\ \/ /\ group.group_fit = "None" /\ group.group_fit_err = "None"
          /\ group.group_fit_slope = "None" /\ group.group_fit_slope_err = "None"
       \/ /\ group.group_fit = "model" /\ group.group_fit_err = "model"
          /\ group.group_fit_slope = "model" /\ group.group_fit_slope_err = "model"

\* the reference dates of the members of the group
MemberReferenceDates == {reference_date(drift[group.peakDrifts[i]]) :
                            i \in 1..Len(group.peakDrifts)}

\* C11: in a group of two members whose reference dates differ, the
\* reference date of the group, once computed, is the earlier of the two
\* reference dates, whether or not the members' points are valid.
C11_GroupAnchoredAtEarliestReference ==
    /\ group.state = "live"
    /\ Len(group.peakDrifts) = 2
    /\ Cardinality(MemberReferenceDates) = 2
    /\ group.reference_date.set
    => group.reference_date.v = Min(MemberReferenceDates)

\* the construction of a tracker with the arguments of t, run on its own
\* from start to end: the states it goes through, one per pass of the loop
AloneNext(t) ==
    IF t.idx <= Len(t.masks) THEN TrackMask(t) ELSE Resume(TrackEnd(t), "model")

RECURSIVE AloneTrace(_)
AloneTrace(t) == IF Tracking(t) THEN {t} \cup AloneTrace(AloneNext(t)) ELSE {t}

ConstructedAlone(t, fs) ==
    AloneTrace(PostInit(NewPeakDrift(t.reference_wavelength, t.local_spacing, t.masks,
                                     t.drift_file, t.force_recalculate, t.auto_fit),
                        fs, "model"))

\* what a construction has produced so far, and where it stands
Progress(t) ==
    [ dates |-> t.dates, wavelengths |-> t.wavelengths, sigmas |-> t.sigmas,
      valid |-> t.valid, recalculated |-> t.recalculated,
      last_wavelength |-> t.last_wavelength, idx |-> t.idx, tracks |-> t.tracks,
      stack |-> t.stack, state |-> t.state, err |-> t.err ]

\* C12: when the constructions of two trackers with different drift files
\* interleave pass by pass, each tracker is at every moment in a state of its
\* construction run alone, and so ends with the dates, wavelengths, sigmas,
\* validity and recalculated flag of that run.
C12_ParallelAsAlone ==
    \A p \in Trackers :
        drift[p].state # "new" =>
            \E a \in ConstructedAlone(drift[p], files) : Progress(a) = Progress(drift[p])

\* C12 witness: both constructions are under way, each one pass into a loop
\* of two masks
C12_Witness ==
    \A p \in Trackers :
        /\ Constructing(drift[p]) /\ Tracking(drift[p])
        /\ Len(drift[p].masks) = 2 /\ drift[p].idx = 2 /\ drift[p].tracks = 1

\* the rows of the drift file a loaded tracker was loaded from
LoadedRows(t) == files[t.drift_file].rows

\* C13: a loaded tracker holds no sigma equal to 0: each row of its drift
\* file whose sigma is 0 is held with sigma NaN and valid false, so a point
\* saved with sigma 0 is not a valid point of the tracker loaded from the file.
C13_ZeroSigmaLoadsAsNaN ==
    \A p \in Trackers :
        drift[p].isArray =>
            /\ Len(drift[p].sigmas) = Len(LoadedRows(drift[p]))
            /\ Len(drift[p].valid) = Len(LoadedRows(drift[p]))
            /\ \A i \in 1..Len(drift[p].sigmas) :
                 /\ drift[p].sigmas[i] # Num(0)
                 /\ Float(LoadedRows(drift[p])[i][3]) = Num(0)
                    => IsNaN(drift[p].sigmas[i]) /\ ~drift[p].valid[i]

\* C13 witness: tracker 1 tracked a point with sigma 0 (valid for it), saved
\* it, and tracker 2 loaded the file: the point is there with sigma NaN,
\* not valid
C13_Witness ==
    /\ drift[1].op = [name |-> "save_to_file", path |-> drift[2].drift_file, wrote |-> TRUE]
    /\ ~drift[1].isArray /\ drift[1].tracks = 1
    /\ drift[1].sigmas = <<Num(1), Num(0)>> /\ drift[1].valid = <<TRUE, TRUE>>
    /\ drift[2].isArray
    /\ drift[2].wavelengths = drift[1].wavelengths
    /\ drift[2].sigmas = <<Num(1), NaN>> /\ drift[2].valid = <<TRUE, FALSE>>

\* the valid points a tracker holds now, in order, each with the reference
\* wavelength of the tracker
MemberPoints(t) ==
    IF BoolIndex(t.dates, t).bad \/ BoolIndex(t.wavelengths, t).bad
         \/ BoolIndex(t.sigmas, t).bad
    THEN << >>
    ELSE [i \in 1..Len(BoolIndex(t.dates, t).v) |->
            [ date |-> BoolIndex(t.dates, t).v[i],
              wavelength |-> BoolIndex(t.wavelengths, t).v[i],
              sigma |-> BoolIndex(t.sigmas, t).v[i],
              reference |-> t.reference_wavelength ]]

\* the valid points of the members ms, member after member
RECURSIVE GroupPoints(_)
GroupPoints(ms) ==
    IF ms = << >> THEN << >> ELSE MemberPoints(drift[Head(ms)]) \o GroupPoints(Tail(ms))

PooledAll == group.days.set /\ group.deltas.set /\ group.relsigmas.set

\* C14: once the group has pooled its dates, fractional deltas and relative
\* sigmas, the three have one length, the number of valid points of all
\* members, and entry k of each comes from the k-th valid point, members
\* taken by ascending reference wavelength and points in member order: the
\* delta is (wavelength - reference) over reference and the relative sigma
\* is the point's sigma over its own member's reference.
C14_PooledAligned ==
    PooledAll =>
        /\ \A i, j \in 1..Len(group.peakDrifts) :
              i < j => drift[group.peakDrifts[i]].reference_wavelength
                         <= drift[group.peakDrifts[j]].reference_wavelength
        /\ Len(group.days.v) = Len(GroupPoints(group.peakDrifts))
        /\ Len(group.deltas.v) = Len(GroupPoints(group.peakDrifts))
        /\ Len(group.relsigmas.v) = Len(GroupPoints(group.peakDrifts))
        /\ \A k \in 1..Len(group.days.v) :
              /\ group.days.v[k] + group.reference_date.v
                   = GroupPoints(group.peakDrifts)[k].date
              /\ group.deltas.v[k] =
                   [ k |-> GroupPoints(group.peakDrifts)[k].wavelength.k,
                     v |-> GroupPoints(group.peakDrifts)[k].wavelength.v
                             - GroupPoints(group.peakDrifts)[k].reference,
                     d |-> GroupPoints(group.peakDrifts)[k].reference ]
              /\ group.relsigmas.v[k] =
                   [ k |-> GroupPoints(group.peakDrifts)[k].sigma.k,
                     v |-> GroupPoints(group.peakDrifts)[k].sigma.v,
                     d |-> GroupPoints(group.peakDrifts)[k].reference ]

\* what a save_to_file(path) called now on tracker p would do
SaveNow(p, path) == SaveToFile(drift[p], path, files)

\* C15: a save_to_file that wrote the drift file brings the tracker back in
\* sync with it: as long as the save is the last call on the tracker, a
\* further save_to_file to the same path, which now exists, writes nothing.
C15_SavedIsInSync ==
    \A p \in Trackers :
        /\ drift[p].op.name = "save_to_file" /\ drift[p].op.wrote
        /\ files[drift[p].op.path].exists
        => /\ ~SaveNow(p, drift[p].op.path)[1].op.wrote
           /\ SaveNow(p, drift[p].op.path)[2] = files

\* a memoised view, if computed, is what the view computes from the arrays now
ViewIsCurrent(memo, now) == memo.set => ~now.bad /\ memo.v = now.v

\* C16: between calls, on a tracker whose last call returned normally, each
\* valid-only view that has been computed (valid wavelengths, from which the
\* deltas derive, valid sigmas, valid dates, from which the day offsets
\* derive) equals the current array filtered by the current valid flags --
\* so that a fit that ran track_drift first used the points of that run,
\* and a save writes them.
C16_ViewsAreCurrent ==
    \A p \in Trackers :
        Idle(drift[p]) /\ drift[p].err = "none" =>
            /\ ViewIsCurrent(drift[p].cvw, BoolIndex(drift[p].wavelengths, drift[p]))
            /\ ViewIsCurrent(drift[p].cvs, BoolIndex(drift[p].sigmas, drift[p]))
            /\ ViewIsCurrent(drift[p].cvd, BoolIndex(drift[p].dates, drift[p]))

\* tracker t has run track_drift exactly once, to the end
TrackedOnce(t) == t.tracks = 1 /\ t.recalculated /\ ~t.isArray

\* the non-null entry before position i of ws, or ref when there is none
Previous(ws, i, ref) == LastAccepted(SubSeq(ws, 1, i - 1), ref)

\* C17: after a single run of track_drift every non-null wavelengths[i] is
\* the position of a peak of masks[i] and lies within local_spacing / 50 of
\* the non-null entry before it, however many null entries lie between, or
\* of the reference wavelength when it is the first non-null entry.
C17_AcceptedChain ==
    \A p \in Trackers :
        TrackedOnce(drift[p]) =>
            /\ Len(drift[p].wavelengths) = Len(drift[p].masks)
            /\ \A i \in 1..Len(drift[p].wavelengths) :
                 ~IsNone(drift[p].wavelengths[i]) =>
                    /\ IsNum(drift[p].wavelengths[i])
                    /\ \E j \in 1..Len(Mask(drift[p].masks[i])) :
                          Mask(drift[p].masks[i])[j][1] = drift[p].wavelengths[i]
                    /\ WindowDivisor
                          * Abs(drift[p].wavelengths[i].v
                                  - Previous(drift[p].wavelengths, i,
                                             drift[p].reference_wavelength).v)
                         <= drift[p].local_spacing

\* C17 witness: a finished run that accepted 12 (at the edge of the window
\* of the reference 10), recorded a null, and accepted 13 next to 12
C17_Witness ==
    /\ TrackedOnce(drift[1]) /\ Idle(drift[1])
    /\ drift[1].reference_wavelength = 10 /\ drift[1].local_spacing = 100
    /\ drift[1].wavelengths = <<Num(12), None, Num(13)>>

====
